---- MODULE Spec2Model ----
(***************************************************************************)
(* Model of the mapty workout tracker (src/script.js, class App and the    *)
(* Workout / Running / Cycling record classes).                            *)
(*                                                                         *)
(* The page is a single-threaded event loop: every action below is one     *)
(* whole event handler (or one step of the environment: the clock, the     *)
(* user typing into the form, a page reload).                              *)
(*                                                                         *)
(* Representation choices:                                                 *)
(*   - an optional value (undefined / null or a value) is a sequence of    *)
(*     length 0 or 1: None or Some(v);                                     *)
(*   - a JavaScript number is a record [k, n, d]: k = "num" with the       *)
(*     reduced fraction n/d, k = "nan", k = "inf", and k = "null" for the  *)
(*     JSON null a non-finite number serializes to;                        *)
(*   - Date.now() is a sequence of decimal digits, so that the string      *)
(*     operation of the id, slice(-10), is modelled on the digits; the     *)
(*     clock advances by Tick, at most MaxTicks times;                     *)
(*   - reset() is one step with the page load that location.reload()       *)
(*     forces: no event is handled by the old page in between;             *)
(*   - a Date object is [kind |-> "Date", ms |-> digits]; JSON.stringify   *)
(*     turns it into its ISO string, [kind |-> "string", ms |-> digits].   *)
(***************************************************************************)
EXTENDS Integers, Sequences, FiniteSets, TLC

VARIABLES
    now,          \* Date.now() of the environment, as decimal digits
    storage,      \* localStorage item "workouts": None or Some(JSON array)
    workouts,     \* App.#workouts
    map,          \* App.#map: None or Some([center, zoom])
    mapEvent,     \* App.#mapEvent: None or Some(latlng)
    markers,      \* markers added to the map, in order of creation
    list,         \* <li class="workout"> elements after the form, top first
    formHidden,   \* form.classList contains "hidden"
    formDisplay,  \* form.style.display: "" (unset), "none" or "grid"
    inputs,       \* values of the select and of the four input fields
    rows,         \* "form__row--hidden" on the cadence and elevation rows
    timers,       \* pending setTimeout callbacks of _hideForm
    geo,          \* the geolocation request: "pending", "success", "error"
    out           \* the last event: its name, alerts shown, uncaught TypeError

vars == <<now, storage, workouts, map, mapEvent, markers, list, formHidden,
          formDisplay, inputs, rows, timers, geo, out>>

(***************************************************************************)
(* Bounds of the model.                                                    *)
(***************************************************************************)
MaxWorkouts == 2
MaxTicks == 1

(***************************************************************************)
(* Program constants.                                                      *)
(***************************************************************************)
mapZoomLevel == 13
IdLength == 10

None == <<>>
Some(v) == <<v>>

(***************************************************************************)
(* JavaScript numbers.                                                     *)
(***************************************************************************)
Abs(i) == IF i < 0 THEN -i ELSE i

RECURSIVE Gcd(_, _)
Gcd(a, b) == IF b = 0 THEN a ELSE Gcd(b, a % b)

Frac(n, d) ==
    LET g == Gcd(Abs(n), Abs(d))
        s == IF d < 0 THEN -1 ELSE 1
    IN [k |-> "num", n |-> (s * n) \div g, d |-> (s * d) \div g]

Num(i) == [k |-> "num", n |-> i, d |-> 1]
NaN == [k |-> "nan", n |-> 0, d |-> 1]
Infinity == [k |-> "inf", n |-> 1, d |-> 1]
JsonNull == [k |-> "null", n |-> 0, d |-> 1]

\* a / b of two numbers the code divides (finite operands)
Div(a, b) ==
    IF a.k # "num" \/ b.k # "num" THEN NaN
    ELSE IF b.n = 0 THEN (IF a.n = 0 THEN NaN ELSE Infinity)
    ELSE Frac(a.n * b.d, a.d * b.n)

\* unary plus on the value of an input element
ToNumber(text) ==
    CASE text = "" -> Num(0)
      [] text = "0" -> Num(0)
      [] text = "5" -> Num(5)
      [] text = "-5" -> Num(-5)
      [] text = "20" -> Num(20)
      [] text = "25" -> Num(25)
      [] text = "60" -> Num(60)
      [] text = "178" -> Num(178)
      [] text = "-150" -> Num(-150)
      [] text = "Infinity" -> Infinity
      [] OTHER -> NaN

isFinite(x) == x.k = "num"
GreaterThanZero(x) == x.k = "inf" \/ (x.k = "num" /\ x.n > 0)

validInputs(xs) == \A i \in 1..Len(xs) : isFinite(xs[i])
allPositive(xs) == \A i \in 1..Len(xs) : GreaterThanZero(xs[i])

(***************************************************************************)
(* The clock and the record classes.                                       *)
(***************************************************************************)
StartClock == <<1, 7, 9, 3, 7, 5, 0, 4, 0, 0, 0, 0, 0>>

RECURSIVE Increment(_)
Increment(ds) ==
    IF ds = <<>> THEN <<1>>
    ELSE LET n == Len(ds)
         IN IF ds[n] < 9 THEN [ds EXCEPT ![n] = ds[n] + 1]
            ELSE Append(Increment(SubSeq(ds, 1, n - 1)), 0)

\* str.slice(-k)
SliceLast(str, k) ==
    IF Len(str) <= k THEN str ELSE SubSeq(str, Len(str) - k + 1, Len(str))

NewDate == [kind |-> "Date", ms |-> now]
NewId == SliceLast(now, IdLength)

Capitalize(type) == IF type = "running" THEN "Running" ELSE "Cycling"

\* "<Type> on <month> <day>": month and day are those of the date
setDescription(type, date) == [title |-> Capitalize(type), monthDayOf |-> date.ms]

\* calcSpeed without the conversion of the duration to hours
calcSpeedPerMinute(distance, duration) == Div(distance, duration)

calcPace(distance, duration) == Div(duration, distance)
calcSpeed(distance, duration) == Div(distance, Div(duration, Num(60)))

Running(coords, distance, duration, cadence) ==
    [date |-> NewDate, id |-> NewId, coords |-> coords, distance |-> distance,
     duration |-> duration, type |-> "running", cadence |-> cadence,
     pace |-> calcPace(distance, duration),
     description |-> setDescription("running", NewDate)]

Cycling(coords, distance, duration, elevation) ==
    [date |-> NewDate, id |-> NewId, coords |-> coords, distance |-> distance,
     duration |-> duration, type |-> "cycling", elevation |-> elevation,
     speed |-> calcSpeed(distance, duration),
     description |-> setDescription("cycling", NewDate)]

(***************************************************************************)
(* JSON.stringify and JSON.parse of the workouts array.                    *)
(***************************************************************************)
JsonNumber(x) == IF isFinite(x) THEN x ELSE JsonNull
JsonDate(d) == [kind |-> "string", ms |-> d.ms]

JsonWorkout(w) ==
    IF w.type = "running"
    THEN [w EXCEPT !.date = JsonDate(@), !.distance = JsonNumber(@),
                   !.duration = JsonNumber(@), !.cadence = JsonNumber(@),
                   !.pace = JsonNumber(@)]
    ELSE [w EXCEPT !.date = JsonDate(@), !.distance = JsonNumber(@),
                   !.duration = JsonNumber(@), !.elevation = JsonNumber(@),
                   !.speed = JsonNumber(@)]

\* JsonStringify of the newest record alone
JsonStringifyNewest(ws) ==
    IF ws = <<>> THEN <<>> ELSE <<JsonWorkout(ws[Len(ws)])>>

JsonStringify(ws) == [i \in 1..Len(ws) |-> JsonWorkout(ws[i])]

(***************************************************************************)
(* Rendering.                                                              *)
(***************************************************************************)
Icon(type) == IF type = "running" THEN "runner" ELSE "cyclist"

\* L.marker(workout.coords).addTo(this.#map).bindPopup(...).setPopupContent(...)
renderWorkoutMarker(workout) ==
    [coords |-> workout.coords,
     className |-> IF workout.type = "running" THEN "running-popup"
                   ELSE "cycling-popup",
     content |-> <<Icon(workout.type), workout.description>>]

\* The <li> of a workout. recIndex is not part of the element: it records
\* the position in #workouts of the record the element was rendered from.
WorkoutElement(workout, recIndex) ==
    [dataId |-> workout.id, class |-> workout.type,
     distance |-> workout.distance, duration |-> workout.duration,
     recIndex |-> recIndex]

\* insertAfterForm inserting at the end of the list instead
insertAtEndOfList(elements, el) == Append(elements, el)

\* form.insertAdjacentHTML("afterend", html)
insertAfterForm(elements, el) == <<el>> \o elements

renderWorkout(elements, workout, recIndex) ==
    insertAfterForm(elements, WorkoutElement(workout, recIndex))

\* this.#workouts.forEach(work => this._renderWorkout(work)), from element i
RECURSIVE renderAllWorkouts(_, _, _)
renderAllWorkouts(elements, ws, i) ==
    IF i > Len(ws) THEN elements
    ELSE renderAllWorkouts(renderWorkout(elements, ws[i], i), ws, i + 1)

\* this.#workouts.forEach(work => this._renderWorkoutMarker(work))
renderAllMarkers(ws) == [i \in 1..Len(ws) |-> renderWorkoutMarker(ws[i])]

(***************************************************************************)
(* The page after the script has run: new App().                           *)
(***************************************************************************)
EmptyInputs ==
    [type |-> "running", distance |-> "", duration |-> "", cadence |-> "",
     elevation |-> ""]

\* _getLocalStorage: JSON.parse(getItem("workouts")) is null when the item is
\* absent, else the array of flat objects
getLocalStorage(item) == IF item = None THEN <<>> ELSE item[1]

\* the event handled, the alert(...) calls of its handler, and whether the
\* handler ended by an uncaught TypeError
Quiet(op) == [op |-> op, alerts |-> 0, threw |-> FALSE]
Alerted(op) == [op |-> op, alerts |-> 1, threw |-> FALSE]
Threw(op) == [op |-> op, alerts |-> 0, threw |-> TRUE]

\* The classes of the fresh document (the form hidden, the cadence row shown,
\* the elevation row hidden, "running" selected) are those of the page the
\* script is written for: the form state machine starts Hidden.
Init ==
    /\ now = StartClock
    /\ storage = None
    /\ workouts = getLocalStorage(None)
    /\ list = renderAllWorkouts(<<>>, getLocalStorage(None), 1)
    /\ map = None
    /\ mapEvent = None
    /\ markers = <<>>
    /\ formHidden = TRUE
    /\ formDisplay = ""
    /\ inputs = EmptyInputs
    /\ rows = [cadence |-> FALSE, elevation |-> TRUE]
    /\ timers = 0
    /\ geo = "pending"
    /\ out = Quiet("load")

\* A page load with the item in storage: the document is fresh, the script
\* runs the constructor (_getPosition, _getLocalStorage, addEventListener)
PageLoad(item, op) ==
    /\ workouts' = getLocalStorage(item)
    /\ list' = renderAllWorkouts(<<>>, getLocalStorage(item), 1)
    /\ map' = None
    /\ mapEvent' = None
    /\ markers' = <<>>
    /\ formHidden' = TRUE
    /\ formDisplay' = ""
    /\ inputs' = EmptyInputs
    /\ rows' = [cadence |-> FALSE, elevation |-> TRUE]
    /\ timers' = 0
    /\ geo' = "pending"
    /\ out' = Quiet(op)

(***************************************************************************)
(* Inputs of the environment.                                              *)
(***************************************************************************)
GeoPositions == {<<51, 0>>}
ClickPoints == {<<52, 1>>}

\* what the user types: <<distance, duration, cadence, elevation>>
FormFills ==
    { [distance |-> "5", duration |-> "25", cadence |-> "178", elevation |-> "abc"],
      [distance |-> "20", duration |-> "60", cadence |-> "", elevation |-> "-150"],
      [distance |-> "-5", duration |-> "25", cadence |-> "178", elevation |-> "0"],
      [distance |-> "5", duration |-> "abc", cadence |-> "178", elevation |-> "-150"] }

(***************************************************************************)
(* Event handlers.                                                         *)
(***************************************************************************)

\* LoadMap without the forEach that renders the markers of the store
LoadMapWithoutMarkers(position) ==
    /\ geo = "pending"
    /\ geo' = "success"
    /\ map' = Some([center |-> position, zoom |-> mapZoomLevel])
    /\ out' = Quiet("geoSuccess")
    /\ UNCHANGED <<now, storage, workouts, mapEvent, markers, list,
                   formHidden, formDisplay, inputs, rows, timers>>

\* getCurrentPosition succeeds: _loadMap(position)
LoadMap(position) ==
    /\ geo = "pending"
    /\ geo' = "success"
    /\ map' = Some([center |-> position, zoom |-> mapZoomLevel])
    /\ markers' = markers \o renderAllMarkers(workouts)
    /\ out' = Quiet("geoSuccess")
    /\ UNCHANGED <<now, storage, workouts, mapEvent, list, formHidden,
                   formDisplay, inputs, rows, timers>>

\* GeoError asking for the position again after the alert
GeoErrorRetries ==
    /\ geo = "pending"
    /\ geo' = "pending"
    /\ out' = Alerted("geoError")
    /\ UNCHANGED <<now, storage, workouts, map, mapEvent, markers, list,
                   formHidden, formDisplay, inputs, rows, timers>>

\* getCurrentPosition fails: the error callback
GeoError ==
    /\ geo = "pending"
    /\ geo' = "error"
    /\ out' = Alerted("geoError")
    /\ UNCHANGED <<now, storage, workouts, map, mapEvent, markers, list,
                   formHidden, formDisplay, inputs, rows, timers>>

\* click on the map (the handler is registered by _loadMap): _showForm(mapE)
ShowForm(latlng) ==
    /\ map # None
    /\ mapEvent' = Some(latlng)
    /\ formHidden' = FALSE
    /\ out' = Quiet("mapClick")
    /\ UNCHANGED <<now, storage, workouts, map, markers, list, formDisplay,
                   inputs, rows, timers, geo>>

\* the user types into the input fields
TypeForm(fill) ==
    /\ inputs' = [inputs EXCEPT !.distance = fill.distance,
                                !.duration = fill.duration,
                                !.cadence = fill.cadence,
                                !.elevation = fill.elevation]
    /\ inputs' # inputs
    /\ out' = Quiet("type")
    /\ UNCHANGED <<now, storage, workouts, map, mapEvent, markers, list,
                   formHidden, formDisplay, rows, timers, geo>>

\* ToggleElevationField toggling the cadence row alone
ToggleCadenceFieldOnly ==
    /\ inputs' = [inputs EXCEPT !.type = IF @ = "running" THEN "cycling"
                                         ELSE "running"]
    /\ rows' = [rows EXCEPT !.cadence = ~rows.cadence]
    /\ out' = Quiet("change")
    /\ UNCHANGED <<now, storage, workouts, map, mapEvent, markers, list,
                   formHidden, formDisplay, timers, geo>>

\* the user selects the other workout kind: change event on the select
ToggleElevationField ==
    /\ inputs' = [inputs EXCEPT !.type = IF @ = "running" THEN "cycling"
                                         ELSE "running"]
    /\ rows' = [cadence |-> ~rows.cadence, elevation |-> ~rows.elevation]
    /\ out' = Quiet("change")
    /\ UNCHANGED <<now, storage, workouts, map, mapEvent, markers, list,
                   formHidden, formDisplay, timers, geo>>

\* Rejected with the elevation gain required to be positive as well
RejectedElevationPositive(type, distance, duration, cadence, elevation) ==
    IF type = "running"
    THEN \/ ~validInputs(<<distance, duration, cadence>>)
         \/ ~allPositive(<<distance, duration, cadence>>)
    ELSE \/ ~validInputs(<<distance, duration, elevation>>)
         \/ ~allPositive(<<distance, duration, elevation>>)

\* the validation of _newWorkout: TRUE when the submission is rejected
Rejected(type, distance, duration, cadence, elevation) ==
    IF type = "running"
    THEN \/ ~validInputs(<<distance, duration, cadence>>)
         \/ ~allPositive(<<distance, duration, cadence>>)
    ELSE \/ ~validInputs(<<distance, duration, elevation>>)
         \/ ~allPositive(<<distance, duration>>)

\* setLocalStorage writing the sequence as it was before the push
setLocalStorageBeforePush(ws) == Some(JsonStringify(SubSeq(ws, 1, Len(ws) - 1)))

\* _setLocalStorage: setItem("workouts", JSON.stringify(this.#workouts))
setLocalStorage(ws) == Some(JsonStringify(ws))

\* NewWorkout hiding and clearing the form before it validates
NewWorkoutHidesOnReject ==
    LET type == inputs.type
        distance == ToNumber(inputs.distance)
        duration == ToNumber(inputs.duration)
        cadence == ToNumber(inputs.cadence)
        elevation == ToNumber(inputs.elevation)
    IN
    IF mapEvent = None
    THEN /\ out' = Threw("submit")
         /\ UNCHANGED <<now, storage, workouts, map, mapEvent, markers, list,
                        formHidden, formDisplay, inputs, rows, timers, geo>>
    ELSE IF Rejected(type, distance, duration, cadence, elevation)
    THEN /\ out' = Alerted("submit")
         /\ inputs' = [inputs EXCEPT !.distance = "", !.duration = "",
                                     !.cadence = "", !.elevation = ""]
         /\ formDisplay' = "none"
         /\ formHidden' = TRUE
         /\ timers' = timers + 1
         /\ timers < MaxWorkouts
         /\ UNCHANGED <<now, storage, workouts, map, mapEvent, markers, list,
                        rows, geo>>
    ELSE LET latlng == mapEvent[1]
             workout == IF type = "running"
                        THEN Running(latlng, distance, duration, cadence)
                        ELSE Cycling(latlng, distance, duration, elevation)
         IN /\ Len(workouts) < MaxWorkouts
            /\ workouts' = Append(workouts, workout)
            /\ markers' = Append(markers, renderWorkoutMarker(workout))
            /\ list' = renderWorkout(list, workout, Len(workouts) + 1)
            /\ inputs' = [inputs EXCEPT !.distance = "", !.duration = "",
                                        !.cadence = "", !.elevation = ""]
            /\ formDisplay' = "none"
            /\ formHidden' = TRUE
            /\ timers' = timers + 1
            /\ storage' = setLocalStorage(workouts')
            /\ out' = Quiet("submit")
            /\ UNCHANGED <<now, map, mapEvent, rows, geo>>

\* NewWorkout adding the record with unshift in place of push
NewWorkoutUnshift ==
    LET type == inputs.type
        distance == ToNumber(inputs.distance)
        duration == ToNumber(inputs.duration)
        cadence == ToNumber(inputs.cadence)
        elevation == ToNumber(inputs.elevation)
    IN
    IF mapEvent = None
    THEN /\ out' = Threw("submit")
         /\ UNCHANGED <<now, storage, workouts, map, mapEvent, markers, list,
                        formHidden, formDisplay, inputs, rows, timers, geo>>
    ELSE IF Rejected(type, distance, duration, cadence, elevation)
    THEN /\ out' = Alerted("submit")
         /\ UNCHANGED <<now, storage, workouts, map, mapEvent, markers, list,
                        formHidden, formDisplay, inputs, rows, timers, geo>>
    ELSE LET latlng == mapEvent[1]
             workout == IF type = "running"
                        THEN Running(latlng, distance, duration, cadence)
                        ELSE Cycling(latlng, distance, duration, elevation)
         IN /\ Len(workouts) < MaxWorkouts
            /\ workouts' = <<workout>> \o workouts
            /\ markers' = Append(markers, renderWorkoutMarker(workout))
            /\ list' = renderWorkout(list, workout, Len(workouts) + 1)
            /\ inputs' = [inputs EXCEPT !.distance = "", !.duration = "",
                                        !.cadence = "", !.elevation = ""]
            /\ formDisplay' = "none"
            /\ formHidden' = TRUE
            /\ timers' = timers + 1
            /\ storage' = setLocalStorage(workouts')
            /\ out' = Quiet("submit")
            /\ UNCHANGED <<now, map, mapEvent, rows, geo>>

\* submit event on the form: _newWorkout(e)
NewWorkout ==
    LET type == inputs.type
        distance == ToNumber(inputs.distance)
        duration == ToNumber(inputs.duration)
        cadence == ToNumber(inputs.cadence)
        elevation == ToNumber(inputs.elevation)
    IN
    IF mapEvent = None
    THEN \* this.#mapEvent.latlng of undefined: TypeError, the handler ends
         /\ out' = Threw("submit")
         /\ UNCHANGED <<now, storage, workouts, map, mapEvent, markers, list,
                        formHidden, formDisplay, inputs, rows, timers, geo>>
    ELSE IF Rejected(type, distance, duration, cadence, elevation)
    THEN \* return alert("Input have to be positive numbers")
         /\ out' = Alerted("submit")
         /\ UNCHANGED <<now, storage, workouts, map, mapEvent, markers, list,
                        formHidden, formDisplay, inputs, rows, timers, geo>>
    ELSE LET latlng == mapEvent[1]
             workout == IF type = "running"
                        THEN Running(latlng, distance, duration, cadence)
                        ELSE Cycling(latlng, distance, duration, elevation)
         IN /\ Len(workouts) < MaxWorkouts
            /\ workouts' = Append(workouts, workout)
            /\ markers' = Append(markers, renderWorkoutMarker(workout))
            /\ list' = renderWorkout(list, workout, Len(workouts) + 1)
            \* _hideForm
            /\ inputs' = [inputs EXCEPT !.distance = "", !.duration = "",
                                        !.cadence = "", !.elevation = ""]
            /\ formDisplay' = "none"
            /\ formHidden' = TRUE
            /\ timers' = timers + 1
            /\ storage' = setLocalStorage(workouts')
            /\ out' = Quiet("submit")
            /\ UNCHANGED <<now, map, mapEvent, rows, geo>>

\* HideFormTimer with the assignment of the display style left out
HideFormTimerKeepsDisplay ==
    /\ timers > 0
    /\ timers' = timers - 1
    /\ out' = Quiet("timer")
    /\ UNCHANGED <<now, storage, workouts, map, mapEvent, markers, list,
                   formHidden, formDisplay, inputs, rows, geo>>

\* HideFormTimer removing the hidden class along with restoring display
HideFormTimerRemovesHidden ==
    /\ timers > 0
    /\ timers' = timers - 1
    /\ formDisplay' = "grid"
    /\ formHidden' = FALSE
    /\ out' = Quiet("timer")
    /\ UNCHANGED <<now, storage, workouts, map, mapEvent, markers, list,
                   inputs, rows, geo>>

\* the callback of the setTimeout of _hideForm
HideFormTimer ==
    /\ timers > 0
    /\ timers' = timers - 1
    /\ formDisplay' = "grid"
    /\ out' = Quiet("timer")
    /\ UNCHANGED <<now, storage, workouts, map, mapEvent, markers, list,
                   formHidden, inputs, rows, geo>>

\* this.#workouts.find(work => work.id === id): the first match, if any
RECURSIVE find(_, _, _)
find(ws, id, i) ==
    IF i > Len(ws) THEN None
    ELSE IF ws[i].id = id THEN Some(ws[i])
    ELSE find(ws, id, i + 1)

\* click inside the list on element i (0: outside of every element):
\* _moveToPopup(e)
MoveToPopup(i) ==
    IF i = 0
    THEN \* if (!workoutEl) return
         /\ out' = Quiet("listClick")
         /\ UNCHANGED <<now, storage, workouts, map, mapEvent, markers, list,
                        formHidden, formDisplay, inputs, rows, timers, geo>>
    ELSE LET workout == find(workouts, list[i].dataId, 1)
         IN IF map = None \/ workout = None
            THEN \* this.#map.setView of undefined: TypeError
                 /\ out' = Threw("listClick")
                 /\ UNCHANGED <<now, storage, workouts, map, mapEvent,
                                markers, list, formHidden, formDisplay,
                                inputs, rows, timers, geo>>
            ELSE /\ map' = Some([center |-> workout[1].coords,
                                 zoom |-> mapZoomLevel])
                 /\ out' = Quiet("listClick")
                 /\ UNCHANGED <<now, storage, workouts, mapEvent, markers,
                                list, formHidden, formDisplay, inputs, rows,
                                timers, geo>>

\* Reset without the removeItem
ResetWithoutRemove ==
    /\ PageLoad(storage, "reset")
    /\ UNCHANGED <<now, storage>>

\* app.reset(): removeItem("workouts"), then location.reload()
Reset ==
    /\ storage' = None
    /\ PageLoad(None, "reset")
    /\ UNCHANGED now

\* the user reloads the page
Reload ==
    /\ PageLoad(storage, "reload")
    /\ UNCHANGED <<now, storage>>

\* a millisecond passes
Tick ==
    /\ now[Len(now)] < MaxTicks
    /\ now' = Increment(now)
    /\ UNCHANGED <<storage, workouts, map, mapEvent, markers, list,
                   formHidden, formDisplay, inputs, rows, timers, geo, out>>

Next ==
    \/ \E position \in GeoPositions : LoadMap(position)
    \/ GeoError
    \/ \E latlng \in ClickPoints : ShowForm(latlng)
    \/ \E fill \in FormFills : TypeForm(fill)
    \/ ToggleElevationField
    \/ NewWorkout
    \/ HideFormTimer
    \/ \E i \in 0..Len(list) : MoveToPopup(i)
    \/ Reset
    \/ Reload
    \/ Tick

\* the values typed for distance and duration when the record classes are
\* exercised over all of their pairs
Quantities == {"5", "20", "25", "60"}

\* the page with the map loaded, a click captured and the form filled in,
\* ready for the submission that constructs a Running or a Cycling
InitRates ==
    /\ now = StartClock
    /\ storage = None
    /\ workouts = <<>>
    /\ list = <<>>
    /\ \E position \in GeoPositions :
          map = Some([center |-> position, zoom |-> mapZoomLevel])
    /\ \E latlng \in ClickPoints : mapEvent = Some(latlng)
    /\ markers = <<>>
    /\ formHidden = FALSE
    /\ formDisplay = ""
    /\ \E type \in {"running", "cycling"}, distance, duration \in Quantities :
          /\ inputs = [type |-> type, distance |-> distance,
                       duration |-> duration, cadence |-> "178",
                       elevation |-> "-150"]
          /\ rows = [cadence |-> type # "running",
                     elevation |-> type = "running"]
    /\ timers = 0
    /\ geo = "success"
    /\ out = Quiet("type")

NextRates ==
    \/ NewWorkout
    \/ Reload
    \/ Tick

SpecRates == InitRates /\ [][NextRates]_vars

(***************************************************************************)
(* _newWorkout statement by statement.  While the handler runs, the event  *)
(* record carries the statement reached (at) and, once constructed, the    *)
(* local variable workout; no other handler runs before it has returned.   *)
(***************************************************************************)
InHandler == "at" \in DOMAIN out
At(stage) == InHandler /\ out.at = stage
Reached(stage) == [op |-> "submit", alerts |-> 0, threw |-> FALSE, at |-> stage]
Holding(stage, workout) ==
    [op |-> "submit", alerts |-> 0, threw |-> FALSE, at |-> stage,
     workout |-> workout]

\* lines 299-333: the values are read, the click location is read, the
\* guard clauses return the alert
SubmitValidate ==
    /\ ~InHandler
    /\ IF mapEvent = None
       THEN out' = Threw("submit")
       ELSE IF Rejected(inputs.type, ToNumber(inputs.distance),
                        ToNumber(inputs.duration), ToNumber(inputs.cadence),
                        ToNumber(inputs.elevation))
       THEN out' = Alerted("submit")
       ELSE /\ Len(workouts) < MaxWorkouts
            /\ out' = Reached("validated")
    /\ UNCHANGED <<now, storage, workouts, map, mapEvent, markers, list,
                   formHidden, formDisplay, inputs, rows, timers, geo>>

\* lines 320 and 335: workout = new Running(...) or new Cycling(...)
SubmitConstruct ==
    /\ At("validated")
    /\ out' = Holding("constructed",
                      IF inputs.type = "running"
                      THEN Running(mapEvent[1], ToNumber(inputs.distance),
                                   ToNumber(inputs.duration),
                                   ToNumber(inputs.cadence))
                      ELSE Cycling(mapEvent[1], ToNumber(inputs.distance),
                                   ToNumber(inputs.duration),
                                   ToNumber(inputs.elevation)))
    /\ UNCHANGED <<now, storage, workouts, map, mapEvent, markers, list,
                   formHidden, formDisplay, inputs, rows, timers, geo>>

\* SubmitPush calling _setLocalStorage right after the push
SubmitPushPersists ==
    /\ At("constructed")
    /\ workouts' = Append(workouts, out.workout)
    /\ storage' = setLocalStorage(workouts')
    /\ out' = Holding("pushed", out.workout)
    /\ UNCHANGED <<now, map, mapEvent, markers, list, formHidden,
                   formDisplay, inputs, rows, timers, geo>>

\* line 339: this.#workouts.push(workout)
SubmitPush ==
    /\ At("constructed")
    /\ workouts' = Append(workouts, out.workout)
    /\ out' = Holding("pushed", out.workout)
    /\ UNCHANGED <<now, storage, map, mapEvent, markers, list, formHidden,
                   formDisplay, inputs, rows, timers, geo>>

\* line 343: this._renderWorkoutMarker(workout)
SubmitMarker ==
    /\ At("pushed")
    /\ markers' = Append(markers, renderWorkoutMarker(out.workout))
    /\ out' = Holding("marked", out.workout)
    /\ UNCHANGED <<now, storage, workouts, map, mapEvent, list, formHidden,
                   formDisplay, inputs, rows, timers, geo>>

\* line 346: this._renderWorkout(workout)
SubmitList ==
    /\ At("marked")
    /\ list' = renderWorkout(list, out.workout, Len(workouts))
    /\ out' = Reached("listed")
    /\ UNCHANGED <<now, storage, workouts, map, mapEvent, markers,
                   formHidden, formDisplay, inputs, rows, timers, geo>>

\* line 349: this._hideForm()
SubmitHideForm ==
    /\ At("listed")
    /\ inputs' = [inputs EXCEPT !.distance = "", !.duration = "",
                                !.cadence = "", !.elevation = ""]
    /\ formDisplay' = "none"
    /\ formHidden' = TRUE
    /\ timers' = timers + 1
    /\ out' = Reached("hidden")
    /\ UNCHANGED <<now, storage, workouts, map, mapEvent, markers, list,
                   rows, geo>>

\* line 352: this._setLocalStorage(), and the handler returns
SubmitPersist ==
    /\ At("hidden")
    /\ storage' = setLocalStorage(workouts)
    /\ out' = Quiet("submit")
    /\ UNCHANGED <<now, workouts, map, mapEvent, markers, list, formHidden,
                   formDisplay, inputs, rows, timers, geo>>

\* an event is taken from the queue only when no handler is running
NextEvent ==
    /\ ~InHandler
    /\ \/ \E position \in GeoPositions : LoadMap(position)
       \/ GeoError
       \/ \E latlng \in ClickPoints : ShowForm(latlng)
       \/ \E fill \in FormFills : TypeForm(fill)
       \/ ToggleElevationField
       \/ HideFormTimer
       \/ \E i \in 0..Len(list) : MoveToPopup(i)
       \/ Reset
       \/ Reload

NextSteps ==
    \/ NextEvent
    \/ SubmitValidate
    \/ SubmitConstruct
    \/ SubmitPush
    \/ SubmitMarker
    \/ SubmitList
    \/ SubmitHideForm
    \/ SubmitPersist
    \/ Tick

SpecSteps == Init /\ [][NextSteps]_vars

Spec == Init /\ [][Next]_vars

\* a pending setTimeout callback runs while its document lives
FairSpec == Spec /\ WF_vars(HideFormTimer)

(***************************************************************************)
(* Vocabulary of the properties.                                           *)
(***************************************************************************)

\* the step is the handling of event op (the clock does not move in it)
Handled(op) == out'.op = op /\ now' = now

FinitePositive(x) == x.k = "num" /\ x.n > 0
FiniteNumber(x) == x.k = "num"

\* the values of the form satisfy the validation rule of the chosen kind
SubmissionValid ==
    LET distance == ToNumber(inputs.distance)
        duration == ToNumber(inputs.duration)
    IN IF inputs.type = "running"
       THEN /\ FinitePositive(distance)
            /\ FinitePositive(duration)
            /\ FinitePositive(ToNumber(inputs.cadence))
       ELSE /\ FinitePositive(distance)
            /\ FinitePositive(duration)
            /\ FiniteNumber(ToNumber(inputs.elevation))

\* the step appends exactly one record at the end of the store
Appends ==
    /\ Len(workouts') = Len(workouts) + 1
    /\ SubSeq(workouts', 1, Len(workouts)) = workouts

Accepted == Handled("submit") /\ Appends

FieldsEmpty ==
    /\ inputs.distance = ""
    /\ inputs.duration = ""
    /\ inputs.cadence = ""
    /\ inputs.elevation = ""

\* the form is displayed to the user
FormShown == ~formHidden /\ formDisplay # "none"

\* a record as a flat object of the persisted array: every field as it is,
\* the date as the string of the same instant
FlatRecord(w) == [w EXCEPT !.date = [kind |-> "string", ms |-> @.ms]]
FlatStore(ws) == [i \in 1..Len(ws) |-> FlatRecord(ws[i])]

\* every record of the store was created in this page session
CreatedInSession == \A i \in 1..Len(workouts) : workouts[i].date.kind = "Date"

(***************************************************************************)
(* C1. Every submission whose inputs are invalid leaves the store as it    *)
(* is and shows exactly one alert, in any reachable state.                 *)
(* Refuted: before the first map click #mapEvent is undefined, and the     *)
(* handler throws at this.#mapEvent.latlng before it validates anything.   *)
(***************************************************************************)
C1_InvalidSubmitAlertsOnce ==
    [][(Handled("submit") /\ ~SubmissionValid)
          => (workouts' = workouts /\ out'.alerts = 1)]_vars

(***************************************************************************)
(* C2. Once a map click has been captured, a submission appends a record   *)
(* if and only if the inputs satisfy the validation rule: running needs    *)
(* distance, duration and cadence finite and positive; cycling needs       *)
(* distance and duration finite and positive and elevation finite, of any  *)
(* sign. The record carries the captured click location.                   *)
(***************************************************************************)
C2_AcceptedIffValid ==
    [][(Handled("submit") /\ mapEvent # None)
          => /\ Appends <=> SubmissionValid
             /\ ~Appends => workouts' = workouts
             /\ Appends => workouts'[Len(workouts')].coords = mapEvent[1]]_vars

C2_Witness ==
    /\ out = Quiet("submit")
    /\ workouts # <<>>
    /\ LET w == workouts[Len(workouts)]
       IN w.date.kind = "Date" /\ w.type = "cycling" /\ w.elevation.n < 0

(***************************************************************************)
(* C3. The claim: N successful submissions in a session that started with  *)
(* an empty store give N records in submission order, and a reload gives   *)
(* a store with the same field values in the same order.                   *)
(* Refuted as stated: the date of a record is a Date object before the     *)
(* reload and a string after it.                                           *)
(***************************************************************************)
C3_ReloadSameFields ==
    [][(Handled("reload") /\ CreatedInSession) => workouts' = workouts]_vars

(***************************************************************************)
(* C3, amended. Every accepted submission appends the record it builds at  *)
(* the end of the store, and a reload gives a store of the same length     *)
(* whose records have, in the same order, the same field values except     *)
(* for date, which is the string of the instant the Date object held.      *)
(***************************************************************************)
C3_AppendThenReloadFlat ==
    [][/\ Handled("submit") => (workouts' = workouts \/ Appends)
       /\ Accepted =>
            LET w == workouts'[Len(workouts')]
            IN /\ w.date = [kind |-> "Date", ms |-> now]
               /\ w.type = inputs.type
               /\ w.distance = ToNumber(inputs.distance)
               /\ w.duration = ToNumber(inputs.duration)
       /\ Handled("reload") =>
            /\ Len(workouts') = Len(workouts)
            /\ \A i \in 1..Len(workouts) :
                 workouts'[i] = FlatRecord(workouts[i])]_vars

C3_Witness ==
    /\ out = Quiet("reload")
    /\ Len(workouts) >= 2
    /\ \A i \in 1..Len(workouts) : workouts[i].date.kind = "string"

(***************************************************************************)
(* C4. Between event handlers the persisted value mirrors the store:       *)
(* either the item is absent and the store is empty, or the item is the    *)
(* serialization of the whole store.                                       *)
(***************************************************************************)
C4_StorageMirrorsStore ==
    \/ storage = None /\ workouts = <<>>
    \/ storage # None /\ storage[1] = FlatStore(workouts)

C4_Witness ==
    /\ out = Quiet("submit")
    /\ Len(workouts) >= 2
    /\ storage # None
    /\ Len(storage[1]) = Len(workouts)

(***************************************************************************)
(* C5. After reset() the persisted value is absent and the page that       *)
(* loads next has an empty store, no list entries and no markers; they     *)
(* stay empty, also when the map loads, for as long as nothing is          *)
(* persisted.                                                              *)
(***************************************************************************)
C5_ResetEmptiesStore ==
    /\ [][Handled("reset") =>
            /\ storage' = None
            /\ workouts' = <<>> /\ list' = <<>> /\ markers' = <<>>]_vars
    /\ [](storage = None => workouts = <<>> /\ list = <<>> /\ markers = <<>>)

C5_Witness ==
    /\ out = Quiet("reset")
    /\ storage = None
    /\ workouts = <<>>
    /\ now # StartClock

(***************************************************************************)
(* C6. The ids of the records of the store are pairwise distinct.          *)
(* Refuted: the id is the last ten digits of Date.now(), so two records    *)
(* created at the same clock reading share their id.                       *)
(***************************************************************************)
C6_IdsDistinct ==
    \A i, j \in 1..Len(workouts) :
        i # j => workouts[i].id # workouts[j].id

(***************************************************************************)
(* C7. Every click on a list entry re-centers the map, at zoom 13, on the  *)
(* coordinates of the record the entry was rendered from.                  *)
(* Refuted: entries rendered from the persisted data exist before the      *)
(* geolocation callback has created the map, and the handler throws at     *)
(* this.#map.setView.                                                      *)
(***************************************************************************)
C7_ListClickRecenters ==
    [][\A i \in 1..Len(list) :
          (Handled("listClick") /\ MoveToPopup(i)) =>
             map' = Some([center |-> workouts[list[i].recIndex].coords,
                          zoom |-> 13])]_vars

(***************************************************************************)
(* C8. The claim: the entries of the list are displayed in the insertion   *)
(* order of the records.                                                   *)
(* Refuted: every entry is inserted right after the form, above the        *)
(* entries rendered before it.                                             *)
(***************************************************************************)
C8_DisplayOrderIsInsertionOrder ==
    /\ Len(list) = Len(workouts)
    /\ \A i \in 1..Len(list) :
          list[i].recIndex = i /\ list[i].dataId = workouts[i].id

(***************************************************************************)
(* C8, amended. The entries of the list are displayed in the reverse of    *)
(* the insertion order of the records, the newest record first, both for   *)
(* records appended in this session and for records rendered from the      *)
(* persisted data at startup.                                              *)
(***************************************************************************)
C8_DisplayOrderIsReverseInsertionOrder ==
    /\ Len(list) = Len(workouts)
    /\ \A i \in 1..Len(list) :
          LET r == Len(workouts) + 1 - i
          IN list[i].recIndex = r /\ list[i].dataId = workouts[r].id

C8_Witness ==
    /\ Len(workouts) >= 2
    /\ workouts[1].date.kind = "string"
    /\ workouts[Len(workouts)].date.kind = "Date"
    /\ Len(list) = Len(workouts)

(***************************************************************************)
(* C9. After every map click the form is shown to the user and the         *)
(* clicked coordinates are captured.                                       *)
(* Refuted: a click handled before the timer of the previous _hideForm     *)
(* has fired removes the hidden class while style.display is still "none". *)
(***************************************************************************)
C9_MapClickShowsForm ==
    [][\A latlng \in ClickPoints :
          (Handled("mapClick") /\ ShowForm(latlng)) =>
             (FormShown' /\ mapEvent' = Some(latlng))]_vars

(***************************************************************************)
(* C10. Right after an accepted submission the form is hidden and the      *)
(* four input fields are empty, and a hidden form stays hidden until the   *)
(* next map click.                                                         *)
(***************************************************************************)
C10_HiddenAfterSubmit ==
    [][/\ Accepted => (formHidden' /\ FieldsEmpty')
       /\ (formHidden /\ ~Handled("mapClick")) => formHidden']_vars

C10_Witness ==
    /\ out = Quiet("timer")
    /\ formHidden
    /\ formDisplay = "grid"
    /\ workouts # <<>>
    /\ FieldsEmpty

(***************************************************************************)
(* C11. The claim: per page load the geolocation request ends once, by     *)
(* success (the map is created, centered on the position at zoom 13) or    *)
(* by failure (one alert, no retry); after a failure the map is never      *)
(* created, no record is appended and the persisted value never changes    *)
(* in that session.                                                        *)
(* Refuted in its last part: reset(), called in such a session, removes    *)
(* the persisted value.                                                    *)
(***************************************************************************)
GeolocationEndsOnce ==
    /\ Handled("geoSuccess") =>
          /\ geo = "pending" /\ geo' = "success"
          /\ map = None
          /\ \E position \in GeoPositions :
                /\ LoadMap(position)
                /\ map' = Some([center |-> position, zoom |-> 13])
    /\ Handled("geoError") =>
          /\ geo = "pending" /\ geo' = "error"
          /\ out'.alerts = 1
          /\ map' = None
    /\ (geo # "pending" /\ geo' = "pending") =>
          (Handled("reload") \/ Handled("reset"))

C11_NothingChangesAfterFailure ==
    [][/\ GeolocationEndsOnce
       /\ geo = "error" =>
             /\ map' = None
             /\ ~Appends
             /\ storage' = storage]_vars

(***************************************************************************)
(* C11, amended. As the claim, except that after a failure the persisted   *)
(* value is changed by nothing but reset(), which removes it and reloads   *)
(* the page.                                                               *)
(***************************************************************************)
C11_OnlyResetChangesAfterFailure ==
    [][/\ GeolocationEndsOnce
       /\ geo = "error" =>
             /\ map' = None
             /\ ~Appends
             /\ storage' = storage \/ (Handled("reset") /\ storage' = None)]_vars

C11_Witness ==
    /\ geo = "error"
    /\ out = Threw("submit")
    /\ storage # None
    /\ SubmissionValid

(***************************************************************************)
(* C12. Every record created by Running has pace = duration / distance,    *)
(* every record created by Cycling has speed = distance / (duration / 60), *)
(* for all positive distance and duration of a bounded set (5 and 25 give  *)
(* pace 5; 20 and 60 give speed 20); the stored derived value is never     *)
(* changed afterwards.  The quotient is stated by cross-multiplication.    *)
(***************************************************************************)
RateOf(w) == IF w.type = "running" THEN w.pace ELSE w.speed

RateAsDefined(w) ==
    /\ RateOf(w).k = "num"
    /\ IF w.type = "running"
       THEN RateOf(w).n * w.distance.n * w.duration.d
               = w.duration.n * RateOf(w).d * w.distance.d
       ELSE RateOf(w).n * w.duration.n * w.distance.d
               = 60 * w.distance.n * RateOf(w).d * w.duration.d
    /\ (w.type = "running" /\ w.distance = Num(5) /\ w.duration = Num(25))
          => w.pace = Num(5)
    /\ (w.type = "cycling" /\ w.distance = Num(20) /\ w.duration = Num(60))
          => w.speed = Num(20)

C12_DerivedRates ==
    [][/\ \A i \in 1..Len(workouts') : RateAsDefined(workouts'[i])
       /\ \A i \in 1..Len(workouts) :
             i <= Len(workouts') =>
                /\ workouts'[i].type = workouts[i].type
                /\ RateOf(workouts'[i]) = RateOf(workouts[i])]_vars

C12_Witness ==
    /\ out = Quiet("reload")
    /\ Len(workouts) = 1
    /\ workouts[1].type = "cycling"
    /\ workouts[1].distance = Num(5)
    /\ workouts[1].duration = Num(25)
    /\ workouts[1].speed = Num(12)

(***************************************************************************)
(* C13. A submission rejected by the validation shows the alert and        *)
(* changes nothing else: the store, the persisted value, the markers, the  *)
(* list entries, the captured click location, the field values and the     *)
(* state of the form are the same before and after the handler.            *)
(***************************************************************************)
RejectedByValidation ==
    /\ Handled("submit")
    /\ mapEvent # None
    /\ ~SubmissionValid

C13_RejectedChangesNothing ==
    [][(RejectedByValidation \/ (Handled("submit") /\ out'.alerts > 0)) =>
          /\ RejectedByValidation
          /\ out' = Alerted("submit")
          /\ UNCHANGED <<workouts, storage, markers, list, mapEvent, inputs,
                         formHidden, formDisplay, rows, timers, map, geo>>]_vars

C13_Witness ==
    /\ out = Alerted("submit")
    /\ ~SubmissionValid
    /\ ~FieldsEmpty
    /\ FormShown
    /\ Len(workouts) = 1
    /\ storage # None

(***************************************************************************)
(* C14. In a session whose geolocation succeeds the store is loaded from   *)
(* persistence before the map is initialized, and from the end of _loadMap *)
(* on the markers are, one for one, those of the stored records (loaded    *)
(* or newly submitted): the i-th marker stands at the coordinates of the   *)
(* i-th record and carries its description, and there is no other marker.  *)
(***************************************************************************)
MarkerOf(marker, workout) ==
    /\ marker.coords = workout.coords
    /\ marker.content[2] = workout.description
    /\ marker.className = IF workout.type = "running" THEN "running-popup"
                          ELSE "cycling-popup"

C14_OneMarkerPerRecord ==
    /\ geo = "pending" => (map = None /\ workouts = getLocalStorage(storage))
    /\ map = None => markers = <<>>
    /\ geo = "success" =>
          /\ map # None
          /\ Len(markers) = Len(workouts)
          /\ \A i \in 1..Len(workouts) : MarkerOf(markers[i], workouts[i])

C14_Witness ==
    /\ geo = "success"
    /\ out = Quiet("submit")
    /\ Len(workouts) = 2
    /\ workouts[1].date.kind = "string"
    /\ workouts[2].date.kind = "Date"
    /\ Len(markers) = 2

(***************************************************************************)
(* C15. Within a page session, after the startup load, every step leaves   *)
(* the store as it is or appends one record at its end: the earlier store  *)
(* is a prefix of the later one, the fields of the records already stored  *)
(* do not change, and the append happens at every successful submission    *)
(* and at no other event.                                                  *)
(***************************************************************************)
StartsSession == Handled("reload") \/ Handled("reset")

SuccessfulSubmit == Handled("submit") /\ out' = Quiet("submit")

C15_StoreOnlyAppends ==
    [][~StartsSession =>
          /\ workouts' = workouts \/ Appends
          /\ SuccessfulSubmit <=> Appends
          /\ out'.op \in {"mapClick", "change", "listClick", "timer", "type",
                          "geoSuccess", "geoError"} => workouts' = workouts]_vars

C15_Witness ==
    /\ out = Quiet("submit")
    /\ Len(workouts) = 2
    /\ workouts[1].type # workouts[2].type
    /\ workouts[1].date.kind = "string"

(***************************************************************************)
(* C16. Every append of a record is preceded, in its session and in this   *)
(* order, by the geolocation success, the initialization of the map and a  *)
(* map click; and within one successful submit the statements come in the  *)
(* order validate, construct the record, append to the store, render the   *)
(* marker, render the list entry, persist.  Stated on the handler taken    *)
(* statement by statement.                                                 *)
(***************************************************************************)
AtNext(stage) == "at" \in DOMAIN out' /\ out'.at = stage
Enters(stage) == AtNext(stage) /\ ~At(stage)

C16_OrderOfSubmit ==
    [][/\ StartsSession => (geo' = "pending" /\ map' = None /\ mapEvent' = None)
       /\ (map = None /\ map' # None) =>
             (Handled("geoSuccess") /\ geo = "pending" /\ geo' = "success")
       /\ (mapEvent = None /\ mapEvent' # None) =>
             (Handled("mapClick") /\ map # None /\ geo = "success")
       /\ Enters("validated") =>
             (~InHandler /\ SubmissionValid /\ mapEvent # None /\ map # None)
       /\ Enters("constructed") =>
             (At("validated") /\ workouts' = workouts)
       /\ Appends =>
             /\ At("constructed") /\ AtNext("pushed")
             /\ workouts'[Len(workouts')] = out.workout
             /\ geo = "success" /\ map # None /\ mapEvent # None
             /\ Len(markers) = Len(workouts) /\ Len(list) = Len(workouts)
             /\ C4_StorageMirrorsStore
             /\ UNCHANGED <<markers, list, storage>>
       /\ (markers' # markers /\ ~StartsSession /\ ~Handled("geoSuccess")) =>
             /\ At("pushed") /\ AtNext("marked")
             /\ Len(markers') = Len(workouts)
             /\ Len(list) = Len(workouts) - 1
             /\ UNCHANGED <<workouts, list, storage>>
       /\ (list' # list /\ ~StartsSession) =>
             /\ At("marked") /\ AtNext("listed")
             /\ Len(list') = Len(workouts)
             /\ Len(markers) = Len(workouts)
             /\ storage # setLocalStorage(workouts)
             /\ UNCHANGED <<workouts, markers, storage>>
       /\ (storage' # storage /\ ~Handled("reset")) =>
             /\ At("hidden") /\ ~InHandler'
             /\ storage' = setLocalStorage(workouts)
             /\ Len(list) = Len(workouts)
             /\ Len(markers) = Len(workouts)
             /\ UNCHANGED <<workouts, markers, list>>]_vars

C16_Witness ==
    /\ At("marked")
    /\ Len(workouts) = 2
    /\ Len(markers) = 2
    /\ Len(list) = 1
    /\ storage = setLocalStorage(SubSeq(workouts, 1, 1))

(***************************************************************************)
(* C17. A change of the workout kind flips the visibility of the cadence   *)
(* row and of the elevation row and changes nothing else: the hidden or    *)
(* shown state of the form, the captured click location, the store, the    *)
(* persisted value, the markers and the list entries stay as they are.     *)
(* Two changes in a row restore the rows: the rows shown are always those  *)
(* of the selected kind.                                                   *)
(***************************************************************************)
RowsOfKind(type) == [cadence |-> type # "running", elevation |-> type = "running"]

C17_KindChangeFlipsRows ==
    [][/\ rows = RowsOfKind(inputs.type)
       /\ Handled("change") =>
             /\ rows'.cadence = ~rows.cadence
             /\ rows'.elevation = ~rows.elevation
             /\ rows' = RowsOfKind(inputs'.type)
             /\ inputs'.type # inputs.type
             /\ [inputs' EXCEPT !.type = inputs.type] = inputs
             /\ UNCHANGED <<formHidden, formDisplay, mapEvent, workouts,
                            storage, markers, list, map, timers, geo>>]_vars

C17_Witness ==
    /\ out = Quiet("change")
    /\ inputs.type = "running"
    /\ rows = [cadence |-> FALSE, elevation |-> TRUE]
    /\ ~formHidden
    /\ ~FieldsEmpty
    /\ Len(workouts) = 1

(***************************************************************************)
(* C18. Each map click yields at most one record: a record is appended     *)
(* only while the form is shown (the hidden class is off), never by a      *)
(* submit handled while the form is hidden, whose captured click location  *)
(* was consumed by an earlier record.                                      *)
(* Refuted: _hideForm leaves #mapEvent set and _newWorkout does not look   *)
(* at the hidden class, so a second submit appends at the same location.   *)
(***************************************************************************)
C18_AppendOnlyWhileFormShown ==
    [][Accepted => ~formHidden]_vars

(***************************************************************************)
(* C19. The claim: under fairness of the timer, every successful submit    *)
(* is followed by the display of the form being set back to "grid"; a      *)
(* firing of the timer changes the display style only: the hidden class,   *)
(* the field values, the store and the persisted value stay, also with     *)
(* several timers pending.                                                 *)
(* Refuted in its first part: a page load (reload, reset) before the timer *)
(* fires discards the document with its timers.                            *)
(***************************************************************************)
TimerChangesDisplayOnly ==
    Handled("timer") =>
       /\ timers > 0 /\ timers' = timers - 1
       /\ formDisplay' = "grid"
       /\ UNCHANGED <<formHidden, inputs, rows, workouts, storage, markers,
                      list, map, mapEvent, geo>>

SubmitHidTheForm == out = Quiet("submit") /\ formDisplay = "none"

C19_DisplayAlwaysRestored ==
    /\ [][TimerChangesDisplayOnly]_vars
    /\ SubmitHidTheForm ~> (formDisplay = "grid")

(***************************************************************************)
(* C19, amended. As the claim, with the display set back to "grid" unless  *)
(* the page is loaded anew before the timer fires; the form of the new     *)
(* document has no inline display and no timer is pending.                 *)
(***************************************************************************)
C19_DisplayRestoredInDocument ==
    /\ [][TimerChangesDisplayOnly]_vars
    /\ SubmitHidTheForm ~> (formDisplay = "grid" \/ (formDisplay = "" /\ timers = 0))

C19_Witness ==
    /\ out = Quiet("timer")
    /\ timers = 1
    /\ formDisplay = "grid"
    /\ formHidden
    /\ Len(workouts) = 2

====
